---- MODULE Spec2Model ----
(***************************************************************************)
(* Ledger and settlement engine of the IPL betting tracker.                *)
(*                                                                         *)
(* src/database.py : class Database, the SQLite ledger store.              *)
(* src/stake.py    : the Streamlit script; its button handlers drive the   *)
(*                   store and keep a per-session cached copy of the       *)
(*                   accounts and of the active bets (st.session_state).   *)
(*                                                                         *)
(* Money is modelled in whole currency units.  Every Database method is an *)
(* operator from a store value to a store value; every button handler is   *)
(* one action that composes the Database calls it makes, in program order. *)
(* A write call of the store may raise (sqlite3.Error: locked database,    *)
(* I/O error); the handlers take the position of the failing call as an    *)
(* input, 0 meaning that no call fails.                                    *)
(***************************************************************************)
EXTENDS Integers, FiniteSets, Sequences, TLC

\* ------------------------------------------------------------------ bounds
\* st.session_state.num_accounts: the sidebar and the form offer the
\* accounts range(1, num_accounts + 1).
NumAccounts == 2
\* Bets the store may hold at one time (guard of Place Bet).
MaxBets == 2
\* Largest balance a credit may produce (guard of the crediting handlers).
MaxBalance == 22
\* Sidebar saves of accounts in one run of the model.
MaxSaves == 2
\* Store write calls that raise in one run of the model.
MaxFaults == 1
\* Uses of "Reset Data" in one run of the model.
MaxResets == 1
\* Result rows the store may hold at one time (guard of the settlements).
MaxResults == 2
\* "Apply Cashout" credits between two resets of the store.
MaxCashouts == 1

\* The settings row written by _setup_database.
DefaultMinTransfer == 250
DefaultBettingValue == 2100

\* --------------------------------------------------------------- inputs
AccountIds == 1..NumAccounts
Sessions == {"s1", "s2"}
\* Threads that call the Database object directly (self._local is per thread).
Threads == {"t1", "t2"}
\* Values typed into the sidebar's Balance field (min_value = 0.0).
BalanceInputs == {4}
\* Values of the two Odds fields (min_value = 1.0).
Odds1Inputs == {2}
Odds2Inputs == {3}
\* Values of the Betting Value field.
BettingValueInputs == {7}
\* Values of a Cashout Amount field (min_value = 0.0).
CashoutInputs == {5}

\* A nullable column is a set: {} is NULL, {v} is the value v.
NULL == {}

VARIABLES
    db,            \* the SQLite file: accounts, matches, bets, bet_accounts, results
    account_data,  \* st.session_state.account_data of each session
    active_bets,   \* st.session_state.active_bets of each session
    last,          \* history: the handler that ran last and how it ended
    used,          \* history: sidebar saves, raised store calls and resets so far
    cashed,        \* history: the cashout credits written to the present store
    conn,          \* self._local.conn of each thread that calls the store directly
    unlinked,      \* the database file removed by reset_database, while still open
    pending        \* the open transaction of each thread's connection, if any

vars ==
    <<db, account_data, active_bets, last, used, cashed, conn, unlinked, pending>>

\* A handler of the script runs on a script thread of its own, whose
\* self._local holds no connection yet: its calls open the file at db_path,
\* which is db.  The handlers leave conn, unlinked and pending alone.
storeVars == <<conn, unlinked, pending>>

\* ------------------------------------------------------------- helpers
Max(S) == CHOOSE x \in S : \A y \in S : y <= x

Min(S) == CHOOSE x \in S : \A y \in S : x <= y

\* Ascending list of a set of integers: the order in which the form builds
\* team1_accounts / team2_accounts and in which SQL ORDER BY returns rows.
RECURSIVE SortedSeq(_)
SortedSeq(S) == IF S = {} THEN <<>> ELSE <<Min(S)>> \o SortedSeq(S \ {Min(S)})

\* cursor.lastrowid of an INTEGER PRIMARY KEY AUTOINCREMENT insert into
\* table: one more than the largest id the table ever held (sqlite_sequence),
\* so that the id of a deleted row is not given again.
NextId(d, table) == d.sequence[table] + 1

\* ------------------------------------------------------ Database (store)
\* The store right after _setup_database on a missing file: empty tables
\* and the settings row with its defaults.
EmptyDb ==
    [accounts     |-> <<>>,
     matches      |-> {},
     bets         |-> {},
     bet_accounts |-> {},
     results      |-> {},
     sequence     |-> [matches |-> 0, bets |-> 0, results |-> 0],
     settings     |-> [min_transfer |-> DefaultMinTransfer,
                       default_betting_value |-> DefaultBettingValue]]

\* Mutant of HasAccount: the foreign key on account_id is not enforced.
HasAccount_Unchecked(d, id) == TRUE

HasAccount(d, id) == id \in DOMAIN d.accounts

\* Database.get_accounts: every account row (is_active defaults to 1).
get_accounts(d) == d.accounts

\* The REPLACE of INSERT OR REPLACE: a row with the same account_id is
\* deleted first, and with PRAGMA foreign_keys = ON the delete cascades to
\* the bet_accounts rows that reference it.
ReplaceCascade(d, id) ==
    IF HasAccount(d, id)
    THEN {ba \in d.bet_accounts : ba.account_id # id}
    ELSE d.bet_accounts

\* Database.save_account, the call that commits.
save_account(d, id, balance) ==
    [d EXCEPT !.accounts = [a \in (DOMAIN d.accounts) \cup {id} |->
                               IF a = id THEN balance ELSE d.accounts[a]],
              !.bet_accounts = ReplaceCascade(d, id)]

\* conn.commit(): the work of the transaction becomes the store.
commit(before, work) == work

\* Mutant of rollback: the except branch does not roll back, and the rows
\* written before the failing statement stay.
rollback_Keep(before, work) == work

\* conn.rollback() in the except branch: the store is as before BEGIN.
rollback(before, work) == before

\* Mutant of InsertBetAccounts: bet_accounts has no PRIMARY KEY, so that a
\* second row of the same bet and account is accepted.
RECURSIVE InsertBetAccounts_NoKey(_, _, _, _, _)
InsertBetAccounts_NoKey(tx, bet_id, accs, team_number, bet_amount) ==
    IF ~tx.ok \/ accs = <<>> THEN tx
    ELSE IF ~HasAccount(tx.db, Head(accs)) THEN [tx EXCEPT !.ok = FALSE]
    ELSE InsertBetAccounts_NoKey(
             [tx EXCEPT !.db.bet_accounts = @ \cup
                 {[bet_id |-> bet_id, account_id |-> Head(accs),
                   team_number |-> team_number, bet_amount |-> bet_amount]}],
             bet_id, Tail(accs), team_number, bet_amount)

\* The two loops of create_bet over team1_accounts / team2_accounts: one
\* INSERT INTO bet_accounts per account.  The insert raises IntegrityError
\* when (bet_id, account_id) is already present (PRIMARY KEY) or when the
\* account row does not exist (FOREIGN KEY).  tx = [ok, db].
RECURSIVE InsertBetAccounts(_, _, _, _, _)
InsertBetAccounts(tx, bet_id, accs, team_number, bet_amount) ==
    IF ~tx.ok \/ accs = <<>> THEN tx
    ELSE LET acc == Head(accs)
             dup == \E ba \in tx.db.bet_accounts :
                       ba.bet_id = bet_id /\ ba.account_id = acc
             row == [bet_id |-> bet_id, account_id |-> acc,
                     team_number |-> team_number, bet_amount |-> bet_amount]
         IN  IF dup \/ ~HasAccount(tx.db, acc)
             THEN [tx EXCEPT !.ok = FALSE]
             ELSE InsertBetAccounts(
                      [tx EXCEPT !.db.bet_accounts = @ \cup {row}],
                      bet_id, Tail(accs), team_number, bet_amount)

\* Mutant of InsertBet: the status column defaults to 'completed'.
InsertBet_Completed(d, bet_id, match_id, bet_data) ==
    [d EXCEPT !.bets = @ \cup
        {[bet_id |-> bet_id, match_id |-> match_id,
          team1_odds |-> bet_data.team1_odds,
          team2_odds |-> bet_data.team2_odds,
          betting_value |-> bet_data.betting_value,
          status |-> "completed"]}]

\* INSERT INTO bets of create_bet: status takes the column default 'active'.
InsertBet(d, bet_id, match_id, bet_data) ==
    [d EXCEPT !.bets = @ \cup
        {[bet_id |-> bet_id, match_id |-> match_id,
          team1_odds |-> bet_data.team1_odds,
          team2_odds |-> bet_data.team2_odds,
          betting_value |-> bet_data.betting_value,
          status |-> "active"]}]

\* Mutant of create_bet: the INSERT INTO matches runs whether or not the
\* caller names a match, and the bet references the new row.
create_bet_AlwaysNewMatch(d, bet_data) ==
    LET match_id == NextId(d, "matches")
        bet_id == NextId(d, "bets")
        d1 == [d EXCEPT !.matches = @ \cup {[match_id |-> match_id]},
                        !.sequence.matches = match_id,
                        !.sequence.bets = bet_id]
        t1 == InsertBetAccounts(
                  [ok |-> TRUE, db |-> InsertBet(d1, bet_id, match_id, bet_data)],
                  bet_id, bet_data.team1_accounts, 1, bet_data.bet_amount1)
        t2 == InsertBetAccounts(t1, bet_id,
                  bet_data.team2_accounts, 2, bet_data.bet_amount2)
    IN  IF t2.ok
        THEN [ok |-> TRUE, db |-> t2.db, bet_id |-> bet_id]
        ELSE [ok |-> FALSE, db |-> d, bet_id |-> 0]

\* Database.create_bet.  bet_data.match_id is NULL when the caller names no
\* match.  Returns [ok, db, bet_id]; ok = FALSE is the raised exception.
create_bet(d, bet_data) ==
    LET new_match == bet_data.match_id = NULL
        match_id  == IF new_match
                     THEN NextId(d, "matches")
                     ELSE CHOOSE m \in bet_data.match_id : TRUE
        d1 == IF new_match
              THEN [d EXCEPT !.matches = @ \cup {[match_id |-> match_id]},
                             !.sequence.matches = match_id]
              ELSE d
        match_ok == \E m \in d1.matches : m.match_id = match_id
        bet_id == NextId(d, "bets")
        d2 == InsertBet([d1 EXCEPT !.sequence.bets = bet_id],
                        bet_id, match_id, bet_data)
        t1 == InsertBetAccounts([ok |-> match_ok, db |-> d2], bet_id,
                  bet_data.team1_accounts, 1, bet_data.bet_amount1)
        t2 == InsertBetAccounts(t1, bet_id,
                  bet_data.team2_accounts, 2, bet_data.bet_amount2)
    IN  IF t2.ok
        THEN [ok |-> TRUE, db |-> commit(d, t2.db), bet_id |-> bet_id]
        ELSE [ok |-> FALSE, db |-> rollback(d, t2.db), bet_id |-> 0]

\* Database.get_active_bets: bets JOIN matches WHERE status = 'active'.
get_active_bets(d) ==
    {[bet_id |-> b.bet_id, match_id |-> m.match_id,
      team1_odds |-> b.team1_odds, team2_odds |-> b.team2_odds,
      betting_value |-> b.betting_value] :
        <<b, m>> \in {x \in d.bets \X d.matches :
                        x[1].match_id = x[2].match_id /\ x[1].status = "active"}}

\* Database.get_bet_history: bets JOIN matches LEFT JOIN results WHERE
\* status = 'completed', one row per joined Result row (result is NULL for a
\* bet without one; the joined row is kept whole, so that two equal results
\* of one bet are two rows).  failed: the query raised; the except clause
\* returns an empty frame.
get_bet_history(d, failed) ==
    IF failed THEN {}
    ELSE LET completed == {b \in d.bets :
                              /\ b.status = "completed"
                              /\ \E m \in d.matches : m.match_id = b.match_id}
         IN  {[bet_id |-> b.bet_id, result |-> {r}] :
                  <<b, r>> \in {x \in completed \X d.results :
                                  x[1].bet_id = x[2].bet_id}}
             \cup {[bet_id |-> b.bet_id, result |-> NULL] :
                      b \in {x \in completed :
                                \A r \in d.results : r.bet_id # x.bet_id}}

\* Database.get_settings: the settings row.  failed: the query raised; the
\* except clause returns the defaults.
get_settings(d, failed) ==
    IF failed
    THEN [min_transfer |-> DefaultMinTransfer,
          default_betting_value |-> DefaultBettingValue]
    ELSE d.settings

\* Database.save_settings: UPDATE settings ... WHERE setting_id = 1.
save_settings(d, settings) ==
    [d EXCEPT !.settings = [min_transfer |-> settings.min_transfer,
                            default_betting_value |->
                                settings.default_betting_value]]

\* Database.create_match: INSERT INTO matches; the new row takes the next
\* match_id.
create_match(d) ==
    [d EXCEPT !.matches = @ \cup {[match_id |-> NextId(d, "matches")]},
              !.sequence.matches = NextId(d, "matches")]

\* Database.get_bet_details: its 'accounts' list, bet_accounts JOIN accounts
\* ORDER BY team_number, account_id.  found = FALSE is "Bet ... not found".
RECURSIVE OrderedAllocs(_)
OrderedAllocs(S) ==
    IF S = {} THEN <<>>
    ELSE LET first == CHOOSE x \in S : \A y \in S :
                          \/ x.team_number < y.team_number
                          \/ /\ x.team_number = y.team_number
                             /\ x.account_id <= y.account_id
         IN  <<first>> \o OrderedAllocs(S \ {first})

get_bet_details(d, bet_id) ==
    [found    |-> \E b \in d.bets : b.bet_id = bet_id,
     accounts |-> OrderedAllocs({ba \in d.bet_accounts :
                      ba.bet_id = bet_id /\ HasAccount(d, ba.account_id)})]

\* Mutant of CreditWinners: the UPDATE has no WHERE clause, so that every
\* account is credited with each profit.
RECURSIVE CreditWinners_NoWhere(_, _)
CreditWinners_NoWhere(d, winning_accounts) ==
    IF winning_accounts = <<>> THEN d
    ELSE CreditWinners_NoWhere(
             [d EXCEPT !.accounts = [a \in DOMAIN @ |->
                                        @[a] + Head(winning_accounts).profit]],
             Tail(winning_accounts))

\* The loop of save_result over winning_accounts:
\* UPDATE accounts SET balance = balance + ? WHERE account_id = ?
RECURSIVE CreditWinners(_, _)
CreditWinners(d, winning_accounts) ==
    IF winning_accounts = <<>> THEN d
    ELSE LET w == Head(winning_accounts)
             d1 == IF HasAccount(d, w.account_id)
                   THEN [d EXCEPT !.accounts[w.account_id] = @ + w.profit]
                   ELSE d
         IN  CreditWinners(d1, Tail(winning_accounts))

\* Mutant of MarkCompleted: the UPDATE matches no row.
MarkCompleted_NoRow(d, bet_id) == d

\* UPDATE bets SET status = 'completed' WHERE bet_id = ?
MarkCompleted(d, bet_id) ==
    [d EXCEPT !.bets = {IF b.bet_id = bet_id
                        THEN [b EXCEPT !.status = "completed"] ELSE b : b \in @}]

\* Mutant of save_result: the connection runs without PRAGMA foreign_keys,
\* so that the INSERT INTO results is accepted for any bet_id.
save_result_NoForeignKey(d, result_data) ==
    [ok |-> TRUE,
     db |-> commit(d, [MarkCompleted(d, result_data.bet_id) EXCEPT
               !.sequence.results = NextId(d, "results"),
               !.results =
               @ \cup {[result_id |-> NextId(d, "results"),
                        bet_id |-> result_data.bet_id,
                        winning_team |-> result_data.winning_team,
                        result_type |-> result_data.result_type,
                        profit_amount |-> result_data.profit_amount,
                        loss_amount |-> result_data.loss_amount,
                        cashout_details |-> result_data.cashout_details]}])]

\* Mutant of save_result: the INSERT INTO results is left out.
save_result_NoInsert(d, result_data) ==
    [ok |-> TRUE, db |-> commit(d, MarkCompleted(d, result_data.bet_id))]

\* Database.save_result.  Returns [ok, db].  The INSERT INTO results raises
\* IntegrityError when the bet row does not exist (FOREIGN KEY).
save_result(d, result_data) ==
    LET d1 == MarkCompleted(d, result_data.bet_id)
        fk_ok == \E b \in d1.bets : b.bet_id = result_data.bet_id
        row == [result_id |-> NextId(d, "results"),
                bet_id |-> result_data.bet_id,
                winning_team |-> result_data.winning_team,
                result_type |-> result_data.result_type,
                profit_amount |-> result_data.profit_amount,
                loss_amount |-> result_data.loss_amount,
                cashout_details |-> result_data.cashout_details]
        d2 == [d1 EXCEPT !.results = @ \cup {row},
                         !.sequence.results = row.result_id]
        d3 == IF result_data.result_type = "win"
              THEN CreditWinners(d2, result_data.winning_accounts)
              ELSE d2
    IN  IF fk_ok
        THEN [ok |-> TRUE, db |-> commit(d, d3)]
        ELSE [ok |-> FALSE, db |-> rollback(d, d2)]

\* Database.reset_database: the file is removed and set up again.
reset_database(d) == EmptyDb

\* Mutant of delete_match: the connection runs without PRAGMA foreign_keys,
\* so that only the match row is deleted.
delete_match_NoCascade(d, match_id) ==
    [d EXCEPT !.matches = {m \in @ : m.match_id # match_id}]

\* DELETE FROM matches WHERE match_id = ? under the schema's foreign keys:
\* bets.match_id, bet_accounts.bet_id and results.bet_id are declared
\* ON DELETE CASCADE, and every connection enforces foreign keys.
delete_match(d, match_id) ==
    LET gone == {b.bet_id : b \in {x \in d.bets : x.match_id = match_id}}
    IN  [d EXCEPT !.matches = {m \in @ : m.match_id # match_id},
                  !.bets = {b \in @ : b.bet_id \notin gone},
                  !.bet_accounts = {ba \in @ : ba.bet_id \notin gone},
                  !.results = {r \in @ : r.bet_id \notin gone}]

\* ------------------------------------------------- stake.py (the script)
\* math.ceil(betting_value / odds) on whole numbers.
Ceil(n, d) == IF n % d = 0 THEN n \div d ELSE (n \div d) + 1

\* calculate_bet_amount.  With show_accurate the quotient itself is the
\* amount; the form inputs of this model offer it only where it is whole.
calculate_bet_amount(betting_value, odds, show_accurate) ==
    IF show_accurate THEN betting_value \div odds ELSE Ceil(betting_value, odds)

\* Position of the store write call that raises, 0 for none.  A handler makes
\* at most one create_bet / save_result call and one save_account per account.
FaultInputs == IF used.faults < MaxFaults THEN 0..(NumAccounts + 1) ELSE {0}

\* The run of a handler: h = [ok, cache, db, calls, fault].  ok = FALSE is a
\* raised exception on its way to the handler's except clause, cache is the
\* session's account_data, calls counts the store write calls made so far.
StartRun(s, fault) ==
    [ok |-> TRUE, cache |-> account_data[s], db |-> db, calls |-> 0,
     fault |-> fault]

Raise(h) == [h EXCEPT !.ok = FALSE]

\* update_account_balance: the cached row is changed first, then written to
\* the store with db.save_account.
update_account_balance(h, account_id, amount, operation) ==
    IF ~h.ok THEN h
    ELSE IF account_id \notin DOMAIN h.cache THEN Raise(h)
    ELSE IF operation # "add" /\ h.cache[account_id] < amount THEN Raise(h)
    ELSE LET balance == IF operation = "add"
                        THEN h.cache[account_id] + amount
                        ELSE h.cache[account_id] - amount
             h1 == [h EXCEPT !.cache[account_id] = balance, !.calls = @ + 1]
         IN  IF h1.calls = h1.fault THEN Raise(h1)
             ELSE [h1 EXCEPT !.db = save_account(h1.db, account_id, balance)]

\* for acc in accounts: update_account_balance(acc, amount, 'subtract')
RECURSIVE DebitAll(_, _, _)
DebitAll(h, accs, amount) ==
    IF accs = <<>> THEN h
    ELSE DebitAll(update_account_balance(h, Head(accs), amount, "subtract"),
                  Tail(accs), amount)

\* The balance check of the Place Bet handler: the accounts of a side whose
\* cached balance is below the side's bet amount.
InsufficientAccounts(cache, accs, amount) ==
    {acc \in accs : cache[acc] < amount}

\* The history record of a handler run.
Ran(op, s, outcome, arg) ==
    [op |-> op, outcome |-> outcome, arg |-> arg]

\* A handler run in which the store call at position fault raised uses up
\* one of the model's faults; calls is the number of store calls attempted.
Faulted(fault, calls) == fault # 0 /\ fault <= calls

CountFault(fault, calls) ==
    IF Faulted(fault, calls)
    THEN /\ used.faults < MaxFaults
         /\ used' = [used EXCEPT !.faults = @ + 1]
    ELSE /\ fault = 0
         /\ UNCHANGED used

\* The bet_data dictionary the Place Bet handler hands to db.create_bet; it
\* names no match.
BetData(form) ==
    [match_id |-> NULL,
     team1_odds |-> form.odds1, team2_odds |-> form.odds2,
     bet_amount1 |-> calculate_bet_amount(form.betting_value, form.odds1,
                                          form.show_accurate),
     bet_amount2 |-> calculate_bet_amount(form.betting_value, form.odds2,
                                          form.show_accurate),
     betting_value |-> form.betting_value,
     team1_accounts |-> SortedSeq(form.team1_accounts),
     team2_accounts |-> SortedSeq(form.team2_accounts)]

\* Mutant of PlaceBetRun: the handler calls db.create_bet first and reports
\* a validation message afterwards.
PlaceBetRun_WriteFirst(s, form, fault) ==
    [outcome |-> "rejected", stage |-> "validation",
     db |-> create_bet(db, BetData(form)).db,
     cache |-> account_data[s], calls |-> 0, bet_id |-> 0,
     amount1 |-> BetData(form).bet_amount1,
     amount2 |-> BetData(form).bet_amount2, insufficient |-> {}]

\* "Place Bet" (form submit), from the validation to the except clause.
\* outcome: "rejected" (a validation message), "error" (the except clause),
\* "placed".  Returns the store and the session's account_data it leaves.
PlaceBetRun(s, form, fault) ==
    LET t1 == form.team1_accounts
        t2 == form.team2_accounts
        bet_data == BetData(form)
        bet_amount1 == bet_data.bet_amount1
        bet_amount2 == bet_data.bet_amount2
        cache == account_data[s]
        created == IF fault = 1
                   THEN [ok |-> FALSE, db |-> db, bet_id |-> 0]
                   ELSE create_bet(db, bet_data)
        h0 == [StartRun(s, fault) EXCEPT !.db = created.db, !.calls = 1]
        h1 == DebitAll(h0, SortedSeq(t1), bet_amount1)
        h2 == DebitAll(h1, SortedSeq(t2), bet_amount2)
        none == [outcome |-> "rejected", stage |-> "validation", db |-> db,
                 cache |-> cache, calls |-> 0, bet_id |-> 0,
                 amount1 |-> bet_amount1, amount2 |-> bet_amount2,
                 insufficient |-> {}]
    IN  IF t1 = {} \/ t2 = {} \/ Cardinality(t1) # Cardinality(t2)
        THEN none
        ELSE IF ~((t1 \cup t2) \subseteq DOMAIN cache)
        THEN \* .iloc[0] on an empty selection: IndexError
             [none EXCEPT !.outcome = "error"]
        ELSE IF InsufficientAccounts(cache, t1, bet_amount1)
                  \cup InsufficientAccounts(cache, t2, bet_amount2) # {}
        THEN [none EXCEPT !.insufficient =
                  InsufficientAccounts(cache, t1, bet_amount1)
                    \cup InsufficientAccounts(cache, t2, bet_amount2)]
        ELSE IF ~created.ok
        THEN [none EXCEPT !.outcome = "error", !.stage = "create_bet",
                          !.db = created.db, !.calls = 1]
        ELSE [none EXCEPT !.outcome = IF h2.ok THEN "placed" ELSE "error",
                          !.stage = "debits", !.db = h2.db, !.cache = h2.cache,
                          !.calls = h2.calls, !.bet_id = created.bet_id]

\* The Place Bet handler: after a placed bet both caches are read again.
PlaceBet(s, form, fault) ==
    LET run == PlaceBetRun(s, form, fault)
        arg == IF run.stage = "validation"
               THEN [stage |-> run.stage, bet_id |-> 0,
                     accounts1 |-> {}, accounts2 |-> {},
                     amount1 |-> 0, amount2 |-> 0]
               ELSE [stage |-> run.stage, bet_id |-> run.bet_id,
                     accounts1 |-> form.team1_accounts,
                     accounts2 |-> form.team2_accounts,
                     amount1 |-> run.amount1, amount2 |-> run.amount2]
    IN  /\ Cardinality(db.bets) < MaxBets
        /\ CountFault(fault, run.calls)
        /\ db' = run.db
        /\ IF run.outcome = "placed"
           THEN /\ active_bets' = [active_bets EXCEPT ![s] = get_active_bets(run.db)]
                /\ account_data' = [account_data EXCEPT ![s] = get_accounts(run.db)]
           ELSE /\ account_data' = [account_data EXCEPT ![s] = run.cache]
                /\ UNCHANGED active_bets
        /\ last' = Ran("place_bet", s, run.outcome, arg)
        /\ UNCHANGED <<cashed, storeVars>>

FormInputs ==
    {f \in [betting_value : BettingValueInputs, odds1 : Odds1Inputs,
            odds2 : Odds2Inputs, show_accurate : BOOLEAN,
            team1_accounts : SUBSET AccountIds,
            team2_accounts : SUBSET AccountIds] :
        f.show_accurate => (f.betting_value % f.odds1 = 0
                            /\ f.betting_value % f.odds2 = 0)}

\* The sidebar's "Save" of account i.
SaveAccount(s, i, balance, fault) ==
    /\ used.saves < MaxSaves
    /\ fault \in 0..1
    /\ UNCHANGED <<cashed, storeVars>>
    /\ IF fault = 1
       THEN /\ used.faults < MaxFaults
            /\ used' = [used EXCEPT !.saves = @ + 1, !.faults = @ + 1]
            /\ UNCHANGED <<db, account_data, active_bets>>
            /\ last' = Ran("save_account", s, "error", [account_id |-> i])
       ELSE /\ used' = [used EXCEPT !.saves = @ + 1]
            /\ db' = save_account(db, i, balance)
            /\ account_data' = [account_data EXCEPT ![s] = get_accounts(db')]
            /\ UNCHANGED active_bets
            /\ last' = Ran("save_account", s, "saved", [account_id |-> i])

\* init_session_state of a new browser session: both caches are read.
InitSessionState(s) ==
    /\ account_data' = [account_data EXCEPT ![s] = get_accounts(db)]
    /\ active_bets' = [active_bets EXCEPT ![s] = get_active_bets(db)]
    /\ UNCHANGED <<db, used, cashed, storeVars>>
    /\ last' = Ran("init_session", s, "done", [account_id |-> 0])

\* The loop of the Apply Win handler over the allocations of the winning
\* side: profit = bet_amount * odds, update_account_balance(account, profit).
RECURSIVE CreditAll(_, _, _)
CreditAll(h, allocs, odds) ==
    IF allocs = <<>> THEN h
    ELSE CreditAll(update_account_balance(h, Head(allocs).account_id,
                                          Head(allocs).bet_amount * odds, "add"),
                   Tail(allocs), odds)

\* The winning_accounts list the handler hands to save_result.
WinningAccounts(allocs, odds) ==
    [i \in 1..Len(allocs) |->
        [account_id |-> allocs[i].account_id,
         profit |-> allocs[i].bet_amount * odds]]

\* Every balance of the store and of a cache is within the model's range.
WithinRange(d, cache) ==
    /\ \A a \in DOMAIN d.accounts : d.accounts[a] <= MaxBalance
    /\ \A a \in DOMAIN cache : cache[a] <= MaxBalance

\* "Apply Win", from db.get_bet_details to the except clause; side is the
\* team picked in the "Select Winning Team" box (the two team names of a
\* match are taken to differ, so that either side can be picked).
ApplyWinRun(s, bet, side, fault) ==
    LET odds == IF side = 1 THEN bet.team1_odds ELSE bet.team2_odds
        bet_details == get_bet_details(db, bet.bet_id)
        winners == SelectSeq(bet_details.accounts,
                             LAMBDA acc : acc.team_number = side)
        h == CreditAll(StartRun(s, fault), winners, odds)
        result_data == [bet_id |-> bet.bet_id, winning_team |-> side,
                        result_type |-> "win", profit_amount |-> NULL,
                        loss_amount |-> NULL, cashout_details |-> <<>>,
                        winning_accounts |-> WinningAccounts(winners, odds)]
        saved == IF h.calls + 1 = fault
                 THEN [ok |-> FALSE, db |-> h.db]
                 ELSE save_result(h.db, result_data)
    IN  IF ~bet_details.found
        THEN [outcome |-> "error", db |-> db, cache |-> account_data[s],
              calls |-> 0, winners |-> {}]
        ELSE IF ~h.ok
        THEN [outcome |-> "error", db |-> h.db, cache |-> h.cache,
              calls |-> h.calls,
              winners |-> {winners[i].account_id : i \in 1..Len(winners)}]
        ELSE [outcome |-> IF saved.ok THEN "settled" ELSE "error",
              db |-> saved.db, cache |-> h.cache,
              calls |-> h.calls + 1,
              winners |-> {winners[i].account_id : i \in 1..Len(winners)}]

\* The Apply Win handler of a bet listed in the session's active bets: after
\* a saved result both caches are read again.
ApplyWin(s, bet, side, fault) ==
    LET run == ApplyWinRun(s, bet, side, fault)
        arg == [bet_id |-> bet.bet_id, side |-> side, winners |-> run.winners]
    IN  /\ bet \in active_bets[s]
        /\ Cardinality(db.results) < MaxResults
        /\ CountFault(fault, run.calls)
        /\ WithinRange(run.db, run.cache)
        /\ db' = run.db
        /\ IF run.outcome = "settled"
           THEN /\ active_bets' = [active_bets EXCEPT ![s] = get_active_bets(run.db)]
                /\ account_data' = [account_data EXCEPT ![s] = get_accounts(run.db)]
           ELSE /\ account_data' = [account_data EXCEPT ![s] = run.cache]
                /\ UNCHANGED active_bets
        /\ last' = Ran("apply_win", s, run.outcome, arg)
        /\ UNCHANGED <<cashed, storeVars>>

\* The Apply Loss handler of a bet listed in the session's active bets: after
\* a saved result the active bets are read again (account_data is not).
ApplyLoss(s, bet, fault) ==
    LET result_data == [bet_id |-> bet.bet_id, winning_team |-> 0,
                        result_type |-> "loss", profit_amount |-> NULL,
                        loss_amount |-> NULL, cashout_details |-> <<>>,
                        winning_accounts |-> <<>>]
        arg == [bet_id |-> bet.bet_id, side |-> 0, winners |-> {}]
        saved == IF fault = 1
                 THEN [ok |-> FALSE, db |-> db]
                 ELSE save_result(db, result_data)
    IN  /\ bet \in active_bets[s]
        /\ Cardinality(db.results) < MaxResults
        /\ CountFault(fault, 1)
        /\ db' = saved.db
        /\ IF saved.ok
           THEN active_bets' = [active_bets EXCEPT ![s] = get_active_bets(saved.db)]
           ELSE UNCHANGED active_bets
        /\ UNCHANGED <<account_data, cashed, storeVars>>
        /\ last' = Ran("apply_loss", s, IF saved.ok THEN "settled" ELSE "error", arg)

\* The accounts the Cashout panel of a bet shows an expander for: the
\* 'accounts' list of db.get_bet_details, read from the store on every run
\* of the script.
CashoutAccounts(d, bet_id) ==
    LET accounts == get_bet_details(d, bet_id).accounts
    IN  {accounts[i].account_id : i \in 1..Len(accounts)}

\* "Apply Cashout" of one account of a bet listed in the session's active
\* bets: update_account_balance(account_id, cashout_amount) adds the amount.
\* The entry appended to the local list cashout_details is dropped at the end
\* of this run of the script.
ApplyCashout(s, bet, acc, cashout_amount, fault) ==
    LET h == update_account_balance(StartRun(s, fault), acc, cashout_amount, "add")
        arg == [bet_id |-> bet.bet_id, side |-> 0, winners |-> {acc}]
    IN  /\ bet \in active_bets[s]
        /\ get_bet_details(db, bet.bet_id).found
        /\ acc \in CashoutAccounts(db, bet.bet_id)
        /\ Cardinality(cashed) < MaxCashouts
        /\ CountFault(fault, h.calls)
        /\ WithinRange(h.db, h.cache)
        /\ db' = h.db
        /\ account_data' = [account_data EXCEPT ![s] = h.cache]
        /\ cashed' = IF h.ok
                     THEN cashed \cup {[bet_id |-> bet.bet_id, account_id |-> acc,
                                        amount |-> cashout_amount]}
                     ELSE cashed
        /\ UNCHANGED <<active_bets, storeVars>>
        /\ last' = Ran("apply_cashout", s, IF h.ok THEN "credited" ELSE "error", arg)

\* "Complete Cashout" of a bet listed in the session's active bets.  The list
\* cashout_details is built anew on this run of the script, in which no
\* "Apply Cashout" button is pressed: it is empty.  After a saved result both
\* caches are read again.
CompleteCashout(s, bet, fault) ==
    LET cashout_details == <<>>
        result_data == [bet_id |-> bet.bet_id, winning_team |-> 0,
                        result_type |-> "cashout", profit_amount |-> NULL,
                        loss_amount |-> NULL,
                        cashout_details |-> cashout_details,
                        winning_accounts |-> <<>>]
        arg == [bet_id |-> bet.bet_id, side |-> 0, winners |-> {}]
        saved == IF fault = 1
                 THEN [ok |-> FALSE, db |-> db]
                 ELSE save_result(db, result_data)
    IN  /\ bet \in active_bets[s]
        /\ get_bet_details(db, bet.bet_id).found
        /\ Cardinality(db.results) < MaxResults
        /\ CountFault(fault, 1)
        /\ db' = saved.db
        /\ IF saved.ok
           THEN /\ active_bets' = [active_bets EXCEPT ![s] = get_active_bets(saved.db)]
                /\ account_data' = [account_data EXCEPT ![s] = get_accounts(saved.db)]
           ELSE UNCHANGED <<active_bets, account_data>>
        /\ UNCHANGED <<cashed, storeVars>>
        /\ last' = Ran("complete_cashout", s,
                       IF saved.ok THEN "settled" ELSE "error", arg)

\* "Reset Data": the store is recreated, the session state is cleared and
\* initialised again from the new store.
ResetData(s) ==
    /\ used.resets < MaxResets
    /\ used' = [used EXCEPT !.resets = @ + 1]
    /\ db' = reset_database(db)
    /\ cashed' = {}
    /\ UNCHANGED storeVars
    /\ account_data' = [account_data EXCEPT ![s] = get_accounts(db')]
    /\ active_bets' = [active_bets EXCEPT ![s] = get_active_bets(db')]
    /\ last' = Ran("reset", s, "done", [account_id |-> 0])

\* The bet ids a caller may name: those the store can hold and one beyond.
BetIdInputs == 1..(MaxBets + 1)

\* The result_data of a settlement of bet_id as the handlers build it.
ResultData(bet_id, result_type, winning_team) ==
    [bet_id |-> bet_id, winning_team |-> winning_team,
     result_type |-> result_type, profit_amount |-> NULL,
     loss_amount |-> NULL, cashout_details |-> <<>>,
     winning_accounts |-> <<>>]

\* The bet_data values handed to create_bet: every form, naming no match, a
\* match the store may hold, or a match it cannot hold.
MatchIdInputs == {NULL, {1}, {MaxBets + 1}}

\* ------------------------------------------- direct calls of the store
\* What the connection of thread t reads: the file at db_path, or the removed
\* file its connection was opened on before a reset.
View(t) == IF conn[t] = "unlinked" THEN unlinked ELSE db

\* _get_connection: a thread without a connection opens the file at db_path.
Connect(t) == [conn EXCEPT ![t] = IF @ = "none" THEN "open" ELSE @]

\* Values of the two Settings fields.
SettingsInputs == {[min_transfer |-> 300, default_betting_value |-> 500]}

\* Where a write method can be made to fail: nowhere, in a statement
\* (sqlite3.Error out of cursor.execute) or in conn.commit().
FailureInputs == {"none", "execute", "commit"}

\* The failures of a statement alone.
StatementFailures == {"none", "execute"}

\* The cursor.execute calls of a write method on file image d.  They run in
\* a transaction of the connection: BEGIN TRANSACTION in create_bet and
\* save_result, the BEGIN that sqlite3 issues before the first INSERT or
\* UPDATE in the others.  image is what the statements make of d; when one of
\* them raises, the transaction stays open on what the method leaves of the
\* statements before it.  tx = [raised, db, pending]: db is the file, pending
\* the open transaction, the image it would commit.
execute(d, image, raised) ==
    [raised |-> raised, db |-> d, pending |-> {IF raised THEN d ELSE image}]

\* conn.commit() at the end of the try block: the image of the open
\* transaction becomes the file and the transaction ends; when the commit
\* raises, neither happens.
conn_commit(tx, raised) ==
    IF raised
    THEN [tx EXCEPT !.raised = TRUE]
    ELSE [raised |-> FALSE,
          db |-> CHOOSE image \in tx.pending : TRUE,
          pending |-> NULL]

\* Mutant of conn_rollback: the except clause re-raises without a rollback.
conn_rollback_Skip(tx) == tx

\* conn.rollback() in the except clause: the open transaction ends and the
\* file keeps what it held.
conn_rollback(tx) == [tx EXCEPT !.pending = NULL]

\* A write method called by thread t; write is [ok, db], what the
\* statements of the method make of the file at db_path (ok = FALSE: one of
\* them raised IntegrityError).  failed: where the call is made to fail.  On
\* a connection to a removed file every write statement raises (attempt to
\* write a readonly database).  The method runs try: execute ..., commit;
\* except: rollback, raise.  last.arg.at is where the call raised.
CallWrite(t, op, arg, write, failed) ==
    LET readonly == conn[t] = "unlinked"
        ex  == execute(db, write.db,
                       failed = "execute" \/ readonly \/ ~write.ok)
        cm  == IF ex.raised THEN ex ELSE conn_commit(ex, failed = "commit")
        end == IF cm.raised THEN conn_rollback(cm) ELSE cm
        at  == IF ex.raised THEN "execute"
               ELSE IF cm.raised THEN "commit" ELSE "none"
    IN  /\ conn' = Connect(t)
        /\ db' = end.db
        /\ pending' = [pending EXCEPT ![t] = end.pending]
        /\ last' = [op |-> op,
                    outcome |-> IF end.raised THEN "raised" ELSE "returned",
                    arg |-> [arg EXCEPT !.failed = failed # "none" \/ readonly]
                            @@ [at |-> at]]
        /\ UNCHANGED <<account_data, active_bets, cashed, unlinked>>

CallSaveAccount(t, id, balance, failed) ==
    /\ used.saves < MaxSaves
    /\ used' = [used EXCEPT !.saves = @ + 1]
    /\ CallWrite(t, "save_account", [failed |-> failed, id |-> id],
                 [ok |-> TRUE, db |-> save_account(db, id, balance)], failed)

CallCreateBet(t, form, match_id, failed) ==
    LET created == create_bet(db, [BetData(form) EXCEPT !.match_id = match_id])
    IN  /\ db.sequence.bets < MaxBets
        /\ match_id = NULL => db.sequence.matches < MaxBets
        /\ Cardinality(form.team1_accounts) = 1
        /\ form.team2_accounts = AccountIds \ form.team1_accounts
        /\ UNCHANGED used
        /\ CallWrite(t, "create_bet",
                     [failed |-> failed, id |-> created.bet_id,
                      match_id |-> match_id],
                     created, failed)

CallSaveResult(t, bet_id, result_type, failed) ==
    /\ db.sequence.results < MaxResults
    /\ UNCHANGED used
    /\ CallWrite(t, "save_result", [failed |-> failed, id |-> bet_id],
                 save_result(db, ResultData(bet_id, result_type, 0)), failed)

CallSaveSettings(t, settings, failed) ==
    /\ UNCHANGED used
    /\ CallWrite(t, "save_settings", [failed |-> failed, id |-> 0],
                 [ok |-> TRUE, db |-> save_settings(db, settings)], failed)

CallCreateMatch(t, failed) ==
    /\ db.sequence.matches < MaxBets
    /\ UNCHANGED used
    /\ CallWrite(t, "create_match",
                 [failed |-> failed, id |-> NextId(db, "matches")],
                 [ok |-> TRUE, db |-> create_match(db)], failed)

\* A DELETE FROM matches issued on the connection of thread t.
CallDeleteMatch(t, match_id, failed) ==
    /\ \E m \in db.matches : m.match_id = match_id
    /\ UNCHANGED used
    /\ CallWrite(t, "delete_match",
                 [failed |-> failed, id |-> match_id, before |-> db],
                 [ok |-> TRUE, db |-> delete_match(db, match_id)], failed)

\* A read method called by thread t.  failed: its query raised.  get_settings
\* and get_bet_history return from their except clause; get_accounts raises.
ReadMethods == {"get_accounts", "get_settings", "get_bet_history"}

ReadValue(method, d, failed) ==
    CASE method = "get_accounts" -> get_accounts(d)
      [] method = "get_settings" -> get_settings(d, failed)
      [] method = "get_bet_history" -> get_bet_history(d, failed)

CallRead(t, method, failed) ==
    LET swallowed == method \in {"get_settings", "get_bet_history"}
        raised == failed /\ ~swallowed
    IN  /\ conn' = Connect(t)
        /\ last' = [op |-> method,
                    outcome |-> IF raised THEN "raised" ELSE "returned",
                    arg |-> [failed |-> failed,
                             value |-> IF raised THEN NULL
                                       ELSE {ReadValue(method, View(t), failed)}]]
        /\ UNCHANGED <<db, account_data, active_bets, used, cashed, unlinked,
                       pending>>

\* reset_database called by thread t: its own connection is closed, which
\* ends a transaction it had open, the file is removed and set up again.  While another thread holds a
\* connection, os.remove either unlinks the file, which that connection keeps
\* open (POSIX), or is denied (PermissionError on Windows: the file stays and
\* the call raises).
CallReset(t, denied) ==
    LET others == {o \in Threads \ {t} : conn[o] = "open"}
    IN  /\ used.resets < MaxResets
        /\ used' = [used EXCEPT !.resets = @ + 1]
        /\ denied => others # {}
        /\ IF denied
           THEN /\ conn' = [conn EXCEPT ![t] = "none"]
                /\ UNCHANGED <<db, unlinked>>
           ELSE /\ conn' = [o \in Threads |->
                               IF o \in others THEN "unlinked"
                               ELSE IF o = t THEN "none" ELSE conn[o]]
                /\ unlinked' = IF others # {} THEN db ELSE unlinked
                /\ db' = reset_database(db)
        /\ last' = [op |-> "reset_database",
                    outcome |-> IF denied THEN "raised" ELSE "returned",
                    arg |-> [failed |-> denied, id |-> 0]]
        /\ pending' = [pending EXCEPT ![t] = NULL]
        /\ UNCHANGED <<account_data, active_bets, cashed>>

StoreNext ==
    \/ \E t \in Threads, i \in AccountIds, b \in BalanceInputs,
             f \in StatementFailures :
          CallSaveAccount(t, i, b, f)
    \/ \E t \in Threads, form \in FormInputs, m \in {NULL, {1}},
             f \in StatementFailures :
          CallCreateBet(t, form, m, f)
    \/ \E t \in Threads, bet_id \in BetIdInputs, f \in StatementFailures :
          CallSaveResult(t, bet_id, "loss", f)
    \/ \E t \in Threads, st \in SettingsInputs, f \in StatementFailures :
          CallSaveSettings(t, st, f)
    \/ \E t \in Threads, m \in 1..MaxBets, f \in StatementFailures :
          CallDeleteMatch(t, m, f)
    \/ \E t \in Threads, method \in ReadMethods, f \in BOOLEAN :
          CallRead(t, method, f)
    \/ \E t \in Threads, denied \in BOOLEAN : CallReset(t, denied)

\* ------------------------------------- calculate_bet_amount on floats
\* Python's float is IEEE-754 binary64: a sign, a significand of Precision
\* bits and a power of two.  A float is [neg, sig, exp]: sig is the
\* significand, most significant bit first and 1 unless the float is zero
\* (sig = <<>>), and the value is (-1)^neg * Val(sig) * 2^exp.  Overflow and
\* subnormals are out of reach of the amounts of this model.
Precision == 53

\* Integers below 2^(2 * LimbBits) as <<high, low>> limbs.
LimbBits == 27

Limb == 2 ^ LimbBits

RECURSIVE Bits(_)
\* The binary digits of a natural number, most significant first.
Bits(n) == IF n < 2 THEN <<n>> ELSE Bits(n \div 2) \o <<n % 2>>

RECURSIVE Val(_)
\* The number a sequence of binary digits stands for.
Val(bits) ==
    IF bits = <<>> THEN 0
    ELSE 2 * Val(SubSeq(bits, 1, Len(bits) - 1)) + bits[Len(bits)]

Zeros(n) == [i \in 1..n |-> 0]

\* The float of whole number n (exact below 2^Precision).
Binary64(n) ==
    LET a == IF n < 0 THEN 0 - n ELSE n
    IN  IF a = 0 THEN [neg |-> FALSE, sig |-> <<>>, exp |-> 0]
        ELSE [neg |-> n < 0,
              sig |-> Bits(a) \o Zeros(Precision - Len(Bits(a))),
              exp |-> Len(Bits(a)) - Precision]

\* A significand as limbs.
ToWide(sig) ==
    <<Val(SubSeq(sig, 1, Precision - LimbBits)),
      Val(SubSeq(sig, Precision - LimbBits + 1, Precision))>>

\* 2 * w + bit
WideShift(w, bit) ==
    LET low == 2 * w[2] + bit
    IN  <<2 * w[1] + (low \div Limb), low % Limb>>

WideGeq(a, b) == a[1] > b[1] \/ (a[1] = b[1] /\ a[2] >= b[2])

\* a - b for a >= b
WideSub(a, b) ==
    IF a[2] >= b[2] THEN <<a[1] - b[1], a[2] - b[2]>>
    ELSE <<a[1] - b[1] - 1, a[2] + Limb - b[2]>>

RECURSIVE LongDiv(_, _, _, _, _)
\* Binary long division of the number with digits num by den, digit i being
\* the next and rem the remainder so far.  The quotient's digits are
\* gathered in sig from its first 1 up to one digit past the precision (the
\* rounding digit); last is the position of that digit, and sticky tells
\* whether anything is left after it.
LongDiv(num, den, i, rem, sig) ==
    LET digit == IF i <= Len(num) THEN num[i] ELSE 0
        shifted == WideShift(rem, digit)
        q == IF WideGeq(shifted, den) THEN 1 ELSE 0
        rest == IF q = 1 THEN WideSub(shifted, den) ELSE shifted
    IN  IF sig = <<>> /\ q = 0
        THEN LongDiv(num, den, i + 1, rest, sig)
        ELSE IF Len(sig) = Precision
             THEN [sig |-> Append(sig, q), last |-> i,
                   sticky |-> \/ rest # <<0, 0>>
                              \/ \E k \in (i + 1)..Len(num) : num[k] = 1]
             ELSE LongDiv(num, den, i + 1, rest, Append(sig, q))

RECURSIVE Increment(_)
\* The digits of Val(bits) + 1.
Increment(bits) ==
    IF bits = <<>> THEN <<1>>
    ELSE IF bits[Len(bits)] = 0
         THEN SubSeq(bits, 1, Len(bits) - 1) \o <<1>>
         ELSE Increment(SubSeq(bits, 1, Len(bits) - 1)) \o <<0>>

\* x / y for floats x and y # 0: the float nearest to the quotient, the one
\* with the even significand when two are equally near.  The significand of
\* y is above the first Precision - 1 digits of that of x, so the division
\* starts at digit Precision with those digits as its remainder.
TrueDiv(x, y) ==
    IF x.sig = <<>> THEN [neg |-> x.neg # y.neg, sig |-> <<>>, exp |-> 0]
    ELSE LET d == LongDiv(x.sig, ToWide(y.sig), Precision,
                          ToWide(<<0>> \o SubSeq(x.sig, 1, Precision - 1)),
                          <<>>)
             first == d.last - Precision
             kept == SubSeq(d.sig, 1, Precision)
             up == d.sig[Precision + 1] = 1
                     /\ (d.sticky \/ kept[Precision] = 1)
             rounded == IF up THEN Increment(kept) ELSE kept
             carry == Len(rounded) - Precision
         IN  [neg |-> x.neg # y.neg,
              sig |-> [i \in 1..Precision |-> rounded[i]],
              exp |-> (x.exp - y.exp) + (1 - first) + carry]

\* math.ceil of a float of magnitude below 2^Precision.
math_ceil(x) ==
    IF x.sig = <<>> THEN 0
    ELSE LET whole == Max({0, Min({Precision, Precision + x.exp})})
             n == Val(SubSeq(x.sig, 1, whole))
             fraction == \E i \in (whole + 1)..Precision : x.sig[i] = 1
         IN  IF x.neg THEN 0 - n
             ELSE IF fraction THEN n + 1 ELSE n

\* Odds are entered with two decimals (format "%.2f", step 0.01); Odds(h) is
\* the float of h hundredths, the one nearest to h / 100.
Odds(h) == TrueDiv(Binary64(h), Binary64(100))

\* calculate_bet_amount(betting_value, odds, show_accurate) on floats.
\* Returns [outcome, value]: a division by zero raises ZeroDivisionError,
\* and nothing else is checked.  With show_accurate the value is the float
\* quotient, otherwise its math.ceil, a whole number.
float_calculate_bet_amount(betting_value, odds, show_accurate) ==
    IF odds.sig = <<>>
    THEN [outcome |-> "raised", value |-> "ZeroDivisionError"]
    ELSE LET amount == TrueDiv(betting_value, odds)
         IN  [outcome |-> "returned",
              value |-> IF show_accurate THEN amount ELSE math_ceil(amount)]

\* Betting values and odds (in hundredths) handed to calculate_bet_amount:
\* values the form offers, and values only a direct call can pass.
CalcBettingValues == {-100, 0, 100, 300, 700, 1000, 2100, 10000}

CalcOdds == {-150, 0, 100, 101, 120, 140, 150, 200, 250, 300, 333, 10000}

\* A call of calculate_bet_amount with the inputs drawn at the start.
Calculate ==
    /\ last.op = "input"
    /\ LET r == float_calculate_bet_amount(Binary64(last.arg.betting_value),
                                           Odds(last.arg.odds),
                                           last.arg.show_accurate)
       IN  last' = [op |-> "calculate_bet_amount", outcome |-> r.outcome,
                    arg |-> [last.arg EXCEPT !.value = r.value]]
    /\ UNCHANGED <<db, account_data, active_bets, used, cashed, storeVars>>

CalcInit ==
    /\ db = EmptyDb
    /\ account_data = [s \in Sessions |-> get_accounts(EmptyDb)]
    /\ active_bets = [s \in Sessions |-> get_active_bets(EmptyDb)]
    /\ \E b \in CalcBettingValues, o \in CalcOdds, a \in BOOLEAN :
          last = [op |-> "input", outcome |-> "none",
                  arg |-> [betting_value |-> b, odds |-> o,
                           show_accurate |-> a, value |-> 0]]
    /\ used = [saves |-> 0, faults |-> 0, resets |-> 0]
    /\ cashed = {}
    /\ conn = [t \in Threads |-> "none"]
    /\ unlinked = EmptyDb
    /\ pending = [t \in Threads |-> NULL]

CalcNext == Calculate

\* --------------------------------------------------------- specification
Init ==
    /\ db = EmptyDb
    /\ account_data = [s \in Sessions |-> get_accounts(EmptyDb)]
    /\ active_bets = [s \in Sessions |-> get_active_bets(EmptyDb)]
    /\ last = [op |-> "start", outcome |-> "done",
               arg |-> [account_id |-> 0]]
    /\ used = [saves |-> 0, faults |-> 0, resets |-> 0]
    /\ cashed = {}
    /\ conn = [t \in Threads |-> "none"]
    /\ unlinked = EmptyDb
    /\ pending = [t \in Threads |-> NULL]

Next ==
    \/ \E s \in Sessions, i \in AccountIds, b \in BalanceInputs, f \in FaultInputs :
          SaveAccount(s, i, b, f)
    \/ \E s \in Sessions, form \in FormInputs, f \in FaultInputs :
          PlaceBet(s, form, f)
    \/ \E s \in Sessions : \E bet \in active_bets[s], k \in 1..2, f \in FaultInputs :
          ApplyWin(s, bet, k, f)
    \/ \E s \in Sessions : \E bet \in active_bets[s], f \in FaultInputs :
          ApplyLoss(s, bet, f)
    \/ \E s \in Sessions : \E bet \in active_bets[s], acc \in AccountIds,
             c \in CashoutInputs, f \in FaultInputs :
          ApplyCashout(s, bet, acc, c, f)
    \/ \E s \in Sessions : \E bet \in active_bets[s], f \in FaultInputs :
          CompleteCashout(s, bet, f)
    \/ \E s \in Sessions : InitSessionState(s)
    \/ \E s \in Sessions : ResetData(s)

Spec == Init /\ [][Next]_vars

\* The Database object called directly from two threads.
StoreSpec == Init /\ [][StoreNext]_vars

\* calculate_bet_amount called on its own.
CalcSpec == CalcInit /\ [][CalcNext]_vars

\* The script with one browser session only.
SoloNext ==
    \/ \E i \in AccountIds, b \in BalanceInputs, f \in FaultInputs :
          SaveAccount("s1", i, b, f)
    \/ \E form \in FormInputs, f \in FaultInputs : PlaceBet("s1", form, f)
    \/ \E bet \in active_bets["s1"], k \in 1..2, f \in FaultInputs :
          ApplyWin("s1", bet, k, f)
    \/ \E bet \in active_bets["s1"], f \in FaultInputs : ApplyLoss("s1", bet, f)
    \/ \E bet \in active_bets["s1"], acc \in AccountIds,
             c \in CashoutInputs, f \in FaultInputs :
          ApplyCashout("s1", bet, acc, c, f)
    \/ \E bet \in active_bets["s1"], f \in FaultInputs :
          CompleteCashout("s1", bet, f)
    \/ InitSessionState("s1")
    \/ ResetData("s1")

SoloSpec == Init /\ [][SoloNext]_vars

\* Two sessions settling two bets on the same accounts.  Session s1 saves
\* the accounts and places the bets, RaceForm(1) and then RaceForm(2), so that
\* each account is staked on side 1 of one bet and on side 2 of the other;
\* then s1 settles bet 1 and s2 settles bet 2 as wins, in either order, a
\* session reading its caches (init_session_state) at any time.
RaceBalances == {8}

RaceForm(bet_id) ==
    CHOOSE f \in FormInputs :
        /\ ~f.show_accurate
        /\ f.team1_accounts = {IF bet_id = 1 THEN 1 ELSE NumAccounts}
        /\ f.team2_accounts = AccountIds \ f.team1_accounts

RaceNext ==
    \/ \E i \in AccountIds, b \in RaceBalances :
          db.bets = {} /\ SaveAccount("s1", i, b, 0)
    \/ db.results = {} /\ PlaceBet("s1", RaceForm(NextId(db, "bets")), 0)
    \/ \E s \in Sessions : InitSessionState(s)
    \/ \E bet \in active_bets["s1"], k \in 1..2 :
          bet.bet_id = 1 /\ ApplyWin("s1", bet, k, 0)
    \/ \E bet \in active_bets["s2"], k \in 1..2 :
          bet.bet_id = MaxBets /\ ApplyWin("s2", bet, k, 0)

RaceSpec == Init /\ [][RaceNext]_vars

\* The write methods of the Database object called from two threads, each
\* made to fail in a statement or in its commit.
TxnNext ==
    \/ \E t \in Threads, i \in AccountIds, b \in BalanceInputs,
             f \in FailureInputs :
          CallSaveAccount(t, i, b, f)
    \/ \E t \in Threads, form \in FormInputs, m \in {NULL, {1}},
             f \in FailureInputs :
          CallCreateBet(t, form, m, f)
    \/ \E t \in Threads, bet_id \in BetIdInputs, f \in FailureInputs :
          CallSaveResult(t, bet_id, "loss", f)
    \/ \E t \in Threads, st \in SettingsInputs, f \in FailureInputs :
          CallSaveSettings(t, st, f)
    \/ \E t \in Threads, f \in FailureInputs : CallCreateMatch(t, f)

TxnSpec == Init /\ [][TxnNext]_vars

\* ================================================================ claims
\* The bet rows of a store with a given id, and the odds of a side.
BetRows(d, bet_id) == {b \in d.bets : b.bet_id = bet_id}

OddsOfSide(b, side) == IF side = 1 THEN b.team1_odds ELSE b.team2_odds

\* The allocations a bet holds on one side.
AllocsOnSide(d, bet_id, side) ==
    {ba \in d.bet_accounts : ba.bet_id = bet_id /\ ba.team_number = side}

\* The step is a win settlement that completed (result saved).
WinSettled == last'.op = "apply_win" /\ last'.outcome = "settled"

RECURSIVE SumOver(_, _)
SumOver(S, f) ==
    IF S = {} THEN 0
    ELSE LET x == CHOOSE y \in S : TRUE IN f[x] + SumOver(S \ {x}, f)

\* C1: a completed win settlement on side s raises the stored balance of
\* every account holding an allocation of the bet on side s by exactly
\* bet_amount * odds_s, once.
C1_WinCreditsStakeTimesOddsOnce ==
    [][WinSettled =>
        \A b \in BetRows(db, last'.arg.bet_id) :
          \A ba \in AllocsOnSide(db, b.bet_id, last'.arg.side) :
            db'.accounts[ba.account_id] =
                db.accounts[ba.account_id]
                  + ba.bet_amount * OddsOfSide(b, last'.arg.side)]_vars

\* The amount of a nullable amount column, NULL read as 0.
NullAsZero(col) == IF col = NULL THEN 0 ELSE CHOOSE v \in col : TRUE

\* C2: the profit_amount of the Result row written by a completed win
\* settlement equals the total the settlement added to the balances of the
\* winning-side accounts (a NULL profit_amount is read as 0).
C2_ProfitAmountEqualsCredits ==
    [][WinSettled =>
        \A r \in db'.results \ db.results :
          LET credited == SumOver(last'.arg.winners,
                              [a \in last'.arg.winners |->
                                  db'.accounts[a] - db.accounts[a]])
          IN  NullAsZero(r.profit_amount) = credited]_vars

\* C3: a completed win settlement leaves the stored balance of every account
\* that holds no allocation of the bet on the winning side unchanged.
C3_WinLeavesOtherAccounts ==
    [][WinSettled =>
        /\ DOMAIN db'.accounts = DOMAIN db.accounts
        /\ \A a \in DOMAIN db.accounts :
              (\A ba \in AllocsOnSide(db, last'.arg.bet_id, last'.arg.side) :
                   ba.account_id # a)
              => db'.accounts[a] = db.accounts[a]]_vars

\* C3 witness: a win settlement has completed that credited some account
\* while the bet still held an allocation on the other side.
C3_Witness ==
    /\ last.op = "apply_win" /\ last.outcome = "settled"
    /\ last.arg.winners # {}
    /\ \E ba \in db.bet_accounts :
          ba.bet_id = last.arg.bet_id /\ ba.team_number # last.arg.side

\* The step is a settlement attempt (win or loss) of a bet that the store
\* already holds as completed.
SettlesCompleted ==
    /\ last'.op \in {"apply_win", "apply_loss"}
    /\ \E b \in BetRows(db, last'.arg.bet_id) : b.status = "completed"

\* C4: settling a bet that is already completed fails, and the balances and
\* the Result rows stay as the first settlement left them.
C4_SecondSettlementFails ==
    [][SettlesCompleted =>
        /\ last'.outcome = "error"
        /\ db'.accounts = db.accounts
        /\ db'.results = db.results]_vars

\* C5: every bet has at most one Result row, and a Result row once written
\* stays in the store unmodified.
C5_OneResultPerBet ==
    /\ [](\A r1, r2 \in db.results : r1.bet_id = r2.bet_id => r1 = r2)
    /\ [][db.results \subseteq db'.results]_vars

\* C6: a bet of the store is 'completed' exactly when the store holds a
\* Result row for it.
C6_CompletedIffResult ==
    \A b \in db.bets :
        b.status = "completed" <=> \E r \in db.results : r.bet_id = b.bet_id

\* C6 witness: a settlement has just been saved, and the store holds a
\* completed bet with its Result next to an active bet without one.
C6_Witness ==
    /\ last.op \in {"apply_win", "apply_loss"} /\ last.outcome = "settled"
    /\ \E b \in db.bets : /\ b.status = "completed"
                          /\ \E r \in db.results : r.bet_id = b.bet_id
    /\ \E b \in db.bets : /\ b.status = "active"
                          /\ \A r \in db.results : r.bet_id # b.bet_id

\* C7: over every step of a handler that places or settles a bet or saves
\* an account (every step but "Reset Data", which removes the store), a
\* completed bet stays completed, and a bet that the step adds to the store
\* is active.
C7_CompletedIsFinal ==
    [][last'.op # "reset" =>
        /\ \A b \in db.bets :
              b.status = "completed"
              => \E c \in db'.bets : c.bet_id = b.bet_id /\ c.status = "completed"
        /\ \A c \in db'.bets :
              BetRows(db, c.bet_id) = {} => c.status = "active"]_vars

\* C7 witness: a bet has been placed while the store held a completed bet,
\* which is still completed.
C7_Witness ==
    /\ last.op = "place_bet" /\ last.outcome = "placed"
    /\ \E b \in db.bets : b.bet_id # last.arg.bet_id /\ b.status = "completed"
    /\ \E b \in db.bets : b.bet_id = last.arg.bet_id /\ b.status = "active"

\* The Place Bet step persisted the bet row, an allocation for every selected
\* account and the debit of every selected account.
PlaceBetAllPersisted ==
    LET a == last'.arg
    IN  /\ BetRows(db, a.bet_id) = {} /\ BetRows(db', a.bet_id) # {}
        /\ \A acc \in a.accounts1 :
              /\ [bet_id |-> a.bet_id, account_id |-> acc, team_number |-> 1,
                  bet_amount |-> a.amount1] \in db'.bet_accounts
              /\ db'.accounts[acc] = db.accounts[acc] - a.amount1
        /\ \A acc \in a.accounts2 :
              /\ [bet_id |-> a.bet_id, account_id |-> acc, team_number |-> 2,
                  bet_amount |-> a.amount2] \in db'.bet_accounts
              /\ db'.accounts[acc] = db.accounts[acc] - a.amount2

\* C8: a Place Bet step, however it ends, persists either all of the bet
\* row, its allocations and its debits, or nothing.
C8_PlaceBetAtomic ==
    [][last'.op = "place_bet" => (db' = db \/ PlaceBetAllPersisted)]_vars

\* C9: whenever create_bet raises, on any bet_data and in any store the
\* program reaches, it leaves the store as it found it; and a Place Bet step
\* that ends in create_bet changes no row.
C9_CreateBetAllOrNothing ==
    /\ [](\A form \in FormInputs, m \in MatchIdInputs :
            LET r == create_bet(db, [BetData(form) EXCEPT !.match_id = m])
            IN  ~r.ok => r.db = db)
    /\ [][(last'.op = "place_bet" /\ last'.arg.stage = "create_bet")
            => db' = db]_vars

\* C9 witness: create_bet raised in a Place Bet on a constraint of the store
\* (no store call has failed on its own so far).
C9_Witness ==
    /\ last.op = "place_bet" /\ last.outcome = "error"
    /\ last.arg.stage = "create_bet"
    /\ used.faults = 0

\* C10: a placed bet lowers the stored balance of each account of accounts1
\* by amount1 and of each account of accounts2 by amount2, leaves every other
\* balance unchanged, and so debits |accounts1| * amount1 +
\* |accounts2| * amount2 in total.
C10_PlacedBetDebitsExactly ==
    [][(last'.op = "place_bet" /\ last'.outcome = "placed") =>
        LET a == last'.arg
        IN  /\ DOMAIN db'.accounts = DOMAIN db.accounts
            /\ \A acc \in a.accounts1 :
                  db'.accounts[acc] = db.accounts[acc] - a.amount1
            /\ \A acc \in a.accounts2 :
                  db'.accounts[acc] = db.accounts[acc] - a.amount2
            /\ \A acc \in DOMAIN db.accounts \ (a.accounts1 \cup a.accounts2) :
                  db'.accounts[acc] = db.accounts[acc]
            /\ SumOver(DOMAIN db.accounts,
                       [acc \in DOMAIN db.accounts |->
                           db.accounts[acc] - db'.accounts[acc]])
                 = Cardinality(a.accounts1) * a.amount1
                     + Cardinality(a.accounts2) * a.amount2]_vars

\* The step is a Place Bet that ran to its end ("Bet added successfully").
BetPlaced == last'.op = "place_bet" /\ last'.outcome = "placed"

\* The allocation rows a placed bet is to hold: one per selected account.
SelectedAllocs(a) ==
    {[bet_id |-> a.bet_id, account_id |-> acc, team_number |-> 1,
      bet_amount |-> a.amount1] : acc \in a.accounts1}
    \cup {[bet_id |-> a.bet_id, account_id |-> acc, team_number |-> 2,
           bet_amount |-> a.amount2] : acc \in a.accounts2}

\* C11: when a Place Bet has run to its end (rows written, debits applied),
\* the store holds the bet as 'active' together with exactly one allocation
\* per selected account: side 1 with amount1 for accounts1, side 2 with
\* amount2 for accounts2.
C11_PlacedBetHoldsAllocations ==
    [][BetPlaced =>
        /\ \E b \in BetRows(db', last'.arg.bet_id) : b.status = "active"
        /\ {ba \in db'.bet_accounts : ba.bet_id = last'.arg.bet_id}
              = SelectedAllocs(last'.arg)]_vars

\* The positions at which a store call of a handler may raise.
AnyFault == 0..(NumAccounts + 1)

C13_RejectedWritesNothing ==
    /\ [](\A s \in Sessions, form \in FormInputs, f \in AnyFault :
            LET run == PlaceBetRun(s, form, f)
            IN  run.outcome = "rejected" => run.db = db)
    /\ [][(last'.op = "place_bet" /\ last'.outcome = "rejected")
            => db' = db]_vars

\* C13 witness: a Place Bet has been rejected while the store holds accounts
\* and an active bet, and a form with one account per side is among those
\* that the session whose cache is short of the amounts gets rejected.
C13_Witness ==
    /\ last.op = "place_bet" /\ last.outcome = "rejected"
    /\ DOMAIN db.accounts = AccountIds
    /\ db.bets # {}
    /\ \E s \in Sessions, form \in FormInputs :
          /\ Cardinality(form.team1_accounts) = 1
          /\ Cardinality(form.team2_accounts) = 1
          /\ PlaceBetRun(s, form, 0).insufficient # {}

\* The accounts of a side whose stored balance is below the side's amount.
Shortfall(d, accs, amount) ==
    {acc \in accs : HasAccount(d, acc) /\ d.accounts[acc] < amount}

\* C14: when a Place Bet is rejected for insufficient balance, the accounts
\* it reports are exactly the accounts of accounts1 whose stored balance is
\* below amount1 together with those of accounts2 whose stored balance is
\* below amount2.
C14_ReportsEveryShortfall ==
    \A s \in Sessions, form \in FormInputs :
        LET run == PlaceBetRun(s, form, 0)
        IN  (run.outcome = "rejected" /\ run.insufficient # {})
            => run.insufficient =
                 Shortfall(db, form.team1_accounts, run.amount1)
                   \cup Shortfall(db, form.team2_accounts, run.amount2)

\* C15: a Place Bet runs to its end only if every selected account's stored
\* balance covers its side's amount (a bet placed from another session in
\* the meantime counts), and it leaves each of them lowered by that amount.
C15_NoLostDebit ==
    [][BetPlaced =>
        LET a == last'.arg
        IN  /\ \A acc \in a.accounts1 :
                  /\ db.accounts[acc] >= a.amount1
                  /\ db'.accounts[acc] = db.accounts[acc] - a.amount1
            /\ \A acc \in a.accounts2 :
                  /\ db.accounts[acc] >= a.amount2
                  /\ db'.accounts[acc] = db.accounts[acc] - a.amount2]_vars

\* The debit of amount from account acc in a Place Bet step obeys the rule
\* of the ledger: above the stored balance it is rejected and the balance
\* stays, equal to the stored balance it leaves 0 when the bet is placed.
DebitByRule(acc, amount) ==
    /\ db.accounts[acc] < amount
        => (last'.outcome # "placed" /\ db'.accounts[acc] = db.accounts[acc])
    /\ (db.accounts[acc] = amount /\ last'.outcome = "placed")
        => db'.accounts[acc] = 0

\* C16: every stored balance is >= 0 in every reachable state, and every
\* debit of a Place Bet step obeys the rule of the ledger.
C16_BalanceNeverNegative ==
    /\ [](\A a \in DOMAIN db.accounts : db.accounts[a] >= 0)
    /\ [][(last'.op = "place_bet" /\ last'.arg.stage = "debits") =>
            /\ \A acc \in last'.arg.accounts1 :
                  DebitByRule(acc, last'.arg.amount1)
            /\ \A acc \in last'.arg.accounts2 :
                  DebitByRule(acc, last'.arg.amount2)]_vars

\* C17: a completed loss settlement of a bet the store holds as active
\* leaves every stored balance unchanged and adds exactly one Result row,
\* for this bet, with result_type 'loss' and no profit amount.
C17_LossAddsOneResultOnly ==
    [][(/\ last'.op = "apply_loss" /\ last'.outcome = "settled"
        /\ \E b \in BetRows(db, last'.arg.bet_id) : b.status = "active")
        => /\ db'.accounts = db.accounts
           /\ db.results \subseteq db'.results
           /\ Cardinality(db'.results \ db.results) = 1
           /\ \A r \in db'.results \ db.results :
                 /\ r.bet_id = last'.arg.bet_id
                 /\ r.result_type = "loss"
                 /\ r.profit_amount = NULL]_vars

\* C17 witness: a loss has been applied to a bet that was active, while the
\* store holds both accounts with a balance above 0 and an allocation.
C17_Witness ==
    /\ last.op = "apply_loss" /\ last.outcome = "settled"
    /\ Cardinality({r \in db.results : r.bet_id = last.arg.bet_id}) = 1
    /\ \E a \in DOMAIN db.accounts : db.accounts[a] > 0
    /\ \E ba \in db.bet_accounts : ba.bet_id = last.arg.bet_id

\* The step completed the settlement of its bet in the store: the Result row
\* is added and the bet is 'completed'.
SettlementPersisted ==
    /\ \E r \in db'.results \ db.results : r.bet_id = last'.arg.bet_id
    /\ \E b \in BetRows(db', last'.arg.bet_id) : b.status = "completed"

\* C18: a step of a win or cashout settlement, however it ends, persists
\* either its credits together with the Result row and the bet's transition
\* to 'completed', or nothing.
C18_SettlementAtomic ==
    [][last'.op \in {"apply_win", "apply_cashout", "complete_cashout"}
        => (db' = db \/ SettlementPersisted)]_vars

\* The stakes of account a that the store records: its allocation amounts.
RecordedStakes(d, a) ==
    LET rows == {ba \in d.bet_accounts : ba.account_id = a}
    IN  SumOver(rows, [ba \in rows |-> ba.bet_amount])

\* The credit of account a that a Result row records: for a win the payout
\* bet_amount * odds of its allocation on the winning side, for a cashout
\* its entries of the cashout breakdown.
RecordedCredit(d, r, a) ==
    IF r.result_type = "win"
    THEN LET rows == {ba \in AllocsOnSide(d, r.bet_id, r.winning_team) :
                         ba.account_id = a}
         IN  SumOver(rows, [ba \in rows |->
                 SumOver(BetRows(d, r.bet_id),
                         [b \in BetRows(d, r.bet_id) |->
                             ba.bet_amount * OddsOfSide(b, r.winning_team)])])
    ELSE IF r.result_type = "cashout"
    THEN SumOver(DOMAIN r.cashout_details,
                 [i \in DOMAIN r.cashout_details |->
                     IF r.cashout_details[i].account_id = a
                     THEN r.cashout_details[i].amount ELSE 0])
    ELSE 0

RecordedCredits(d, a) ==
    SumOver(d.results, [r \in d.results |-> RecordedCredit(d, r, a)])

\* C19: over every step that places or settles a bet, each stored balance
\* changes by exactly what the records of the store account for: minus the
\* change of the account's recorded stakes, plus the change of its recorded
\* credits.  (From balances that start with no record, this is: balance =
\* initial - recorded stakes + recorded credits.)
C19_LedgerConsistent ==
    [][last'.op \in {"place_bet", "apply_win", "apply_loss",
                     "apply_cashout", "complete_cashout"}
        => /\ DOMAIN db'.accounts = DOMAIN db.accounts
           /\ \A a \in DOMAIN db.accounts :
                 db'.accounts[a] - db.accounts[a] =
                     (RecordedCredits(db', a) - RecordedCredits(db, a))
                       - (RecordedStakes(db', a) - RecordedStakes(db, a))]_vars

\* The entries of a cashout breakdown, as a set.
BreakdownEntries(details) ==
    {[account_id |-> details[i].account_id, amount |-> details[i].amount] :
        i \in 1..Len(details)}

\* C20: the Result row of a completed cashout settlement has result_type
\* 'cashout', and its breakdown holds an entry, with the credited amount,
\* for exactly the accounts that were credited a cashout for this bet.
C20_CashoutBreakdownComplete ==
    [][(last'.op = "complete_cashout" /\ last'.outcome = "settled")
        => \A r \in db'.results \ db.results :
              /\ r.result_type = "cashout"
              /\ BreakdownEntries(r.cashout_details) =
                    {[account_id |-> c.account_id, amount |-> c.amount] :
                        c \in {x \in cashed : x.bet_id = last'.arg.bet_id}}]_vars

\* The step is a settlement handler run on a bet that the store does not hold.
SettlesMissingBet ==
    /\ last'.op \in {"apply_win", "apply_loss", "complete_cashout"}
    /\ BetRows(db, last'.arg.bet_id) = {}

\* C21: settling a bet id the store does not hold fails and writes nothing:
\* save_result raises and leaves the store as it was, get_bet_details reports
\* the bet as not found, and a settlement handler run on such a bet ends in
\* its except clause with the store unchanged.
C21_MissingBetNotSettled ==
    /\ [](\A bet_id \in BetIdInputs :
            BetRows(db, bet_id) = {}
            => /\ ~get_bet_details(db, bet_id).found
               /\ \A ty \in {"win", "loss", "cashout"}, k \in 0..2 :
                     LET r == save_result(db, ResultData(bet_id, ty, k))
                     IN  ~r.ok /\ r.db = db)
    /\ [][SettlesMissingBet => (last'.outcome = "error" /\ db' = db)]_vars

\* C21 witness: Apply Loss has been pressed on a bet that a reset had removed
\* from the store, and has ended in its except clause without a store call
\* failing on its own.
C21_Witness ==
    /\ last.op = "apply_loss" /\ last.outcome = "error"
    /\ BetRows(db, last.arg.bet_id) = {}
    /\ used.faults = 0 /\ used.resets = 1

\* Every foreign key of the store references an existing row.
ReferentialIntegrity(d) ==
    /\ \A b \in d.bets : \E m \in d.matches : m.match_id = b.match_id
    /\ \A ba \in d.bet_accounts :
          /\ BetRows(d, ba.bet_id) # {}
          /\ ba.account_id \in DOMAIN d.accounts
    /\ \A r \in d.results : BetRows(d, r.bet_id) # {}

\* C23: every bet references an existing match, every allocation an existing
\* bet and an existing account, every Result an existing bet; and create_bet
\* leaves a store for which this holds, whatever match and accounts it is
\* given.
C23_ReferentialIntegrity ==
    /\ ReferentialIntegrity(db)
    /\ \A form \in FormInputs, m \in MatchIdInputs :
          (form.team1_accounts # {} /\ form.team2_accounts # {})
          => ReferentialIntegrity(
                 create_bet(db, [BetData(form) EXCEPT !.match_id = m]).db)
    /\ \A bet_id \in BetIdInputs :
          ReferentialIntegrity(save_result(db, ResultData(bet_id, "loss", 0)).db)

\* C23 witness: the store holds a match, a bet, an allocation and a Result
\* at once, and it rejects a bet on a match it does not hold and a Result
\* for a bet it does not hold.
C23_Witness ==
    /\ db.bet_accounts # {} /\ db.results # {}
    /\ \E form \in FormInputs :
          /\ create_bet(db, BetData(form)).ok
          /\ ~create_bet(db, [BetData(form) EXCEPT
                                  !.match_id = {MaxBets + 1}]).ok
    /\ ~save_result(db, ResultData(MaxBets + 1, "loss", 0)).ok

\* The bets a listing names.
Listed(rows) == {row.bet_id : row \in rows}

\* C29: whether or not its query fails, get_bet_history returns exactly the
\* bets with status 'completed', each once; get_active_bets returns exactly
\* the bets with status 'active'; so every bet is in exactly one listing.
C29_ListingsPartitionBets ==
    \A failed \in BOOLEAN :
        LET history == get_bet_history(db, failed)
        IN  /\ Listed(get_active_bets(db))
                  = {b.bet_id : b \in {x \in db.bets : x.status = "active"}}
            /\ Listed(history)
                  = {b.bet_id : b \in {x \in db.bets : x.status = "completed"}}
            /\ \A r1, r2 \in history : r1.bet_id = r2.bet_id => r1 = r2

\* C30: saving an account the store holds changes only that account's row:
\* the allocations, and every other table and account, stay as they were.
C30_SaveAccountFrame ==
    \A id \in DOMAIN db.accounts, balance \in BalanceInputs :
        LET d == save_account(db, id, balance)
        IN  /\ d.bet_accounts = db.bet_accounts
            /\ d.matches = db.matches /\ d.bets = db.bets
            /\ d.results = db.results /\ d.settings = db.settings
            /\ \A a \in DOMAIN db.accounts \ {id} : d.accounts[a] = db.accounts[a]

\* The store operations whose underlying statement can fail.
StoreOps ==
    {"save_account", "create_bet", "save_result", "save_settings",
     "delete_match", "reset_database"} \cup ReadMethods

\* C22: a store operation whose query or transaction failed raises to its
\* caller; none of them, get_settings and get_bet_history included, returns
\* a value.
C22_StoreFailureSurfaced ==
    (last.op \in StoreOps /\ last.arg.failed) => last.outcome = "raised"

\* The rows of store d that belong to match match_id: its bets and their
\* allocations and Results.
BetsOfMatch(d, match_id) ==
    {b.bet_id : b \in {x \in d.bets : x.match_id = match_id}}

\* Store d2 is store d without match match_id and the rows that belong to
\* it, and with every other row.
DeletedMatch(d, d2, match_id) ==
    LET gone == BetsOfMatch(d, match_id)
    IN  /\ d2.matches = {m \in d.matches : m.match_id # match_id}
        /\ d2.bets = {b \in d.bets : b.bet_id \notin gone}
        /\ d2.bet_accounts = {ba \in d.bet_accounts : ba.bet_id \notin gone}
        /\ d2.results = {r \in d.results : r.bet_id \notin gone}
        /\ d2.accounts = d.accounts
        /\ d2.settings = d.settings
        /\ BetsOfMatch(d2, match_id) = {}
        /\ \A ba \in d2.bet_accounts : ba.bet_id \notin gone
        /\ \A r \in d2.results : r.bet_id \notin gone

\* C24: deleting a match removes the match, its bets and their allocations
\* and Results, and leaves every row of every other match, every account and
\* the settings as they were.
C24_DeleteMatchCascades ==
    /\ [](\A match_id \in 1..MaxBets :
            DeletedMatch(db, delete_match(db, match_id), match_id))
    /\ [][(last'.op = "delete_match" /\ last'.outcome = "returned")
            => DeletedMatch(db, db', last'.arg.id)]_vars

\* C24 witness: a match whose bet had an allocation and a Result has been
\* deleted while another match's bet, with its allocations and Result, and
\* the accounts are still in the store.
C24_Witness ==
    /\ last.op = "delete_match" /\ last.outcome = "returned"
    /\ LET before == last.arg.before
           gone == BetsOfMatch(before, last.arg.id)
       IN  /\ \E ba \in before.bet_accounts : ba.bet_id \in gone
           /\ \E r \in before.results : r.bet_id \in gone
           /\ db.bets # {} /\ db.bet_accounts # {} /\ db.results # {}
           /\ DOMAIN db.accounts = AccountIds
           /\ db.bets # before.bets

\* C27: once reset_database has returned, every caller reads a store
\* without accounts, matches, bets, allocations and Results, whose settings
\* row holds the defaults.
C27_ResetVisibleToEveryCaller ==
    (last.op = "reset_database" /\ last.outcome = "returned")
    => \A t \in Threads :
          /\ get_accounts(View(t)) = get_accounts(EmptyDb)
          /\ View(t).matches = {} /\ View(t).bets = {}
          /\ View(t).bet_accounts = {} /\ View(t).results = {}
          /\ get_settings(View(t), FALSE)
                = [min_transfer |-> DefaultMinTransfer,
                   default_betting_value |-> DefaultBettingValue]

\* create_bet on store d with bet_data: the bet it adds references match
\* row and is the only bet added.
AddsBetOn(d, created, match_id) ==
    /\ \E b \in created.db.bets :
          /\ b.bet_id = created.bet_id /\ b.match_id = match_id
          /\ created.db.bets = d.bets \cup {b} /\ b \notin d.bets
    /\ \E m \in created.db.matches : m.match_id = match_id

\* What create_bet has to do with the matches of store d, given match_id.
MatchRule(d, created, match_id) ==
    IF match_id = NULL
    THEN \E m \in created.db.matches :
            /\ m \notin d.matches
            /\ created.db.matches = d.matches \cup {m}
            /\ AddsBetOn(d, created, m.match_id)
    ELSE /\ created.db.matches = d.matches
         /\ \A m \in match_id : AddsBetOn(d, created, m)

\* C28: a create_bet that names an existing match adds no match row and its
\* bet references that match; one that names no match adds exactly one match
\* row, which its bet references.
C28_CreateBetMatchRule ==
    /\ [](\A form \in FormInputs, m \in MatchIdInputs :
            LET created == create_bet(db, [BetData(form) EXCEPT !.match_id = m])
            IN  (form.team1_accounts # {} /\ form.team2_accounts # {}
                   /\ created.ok)
                => MatchRule(db, created, m))
    /\ [][(last'.op = "create_bet" /\ last'.outcome = "returned")
            => MatchRule(db, [ok |-> TRUE, db |-> db', bet_id |-> last'.arg.id],
                         last'.arg.match_id)]_vars

\* C28 witness: a second bet has been created on the match of the first, so
\* that one match row carries two bets, the first having been created
\* without a match id.
C28_Witness ==
    /\ last.op = "create_bet" /\ last.outcome = "returned"
    /\ last.arg.match_id = {1}
    /\ Cardinality(db.matches) = 1
    /\ Cardinality(db.bets) = 2
    /\ \A b \in db.bets : b.match_id = 1

\* A call of calculate_bet_amount without show_accurate on positive inputs.
CeilingCall ==
    /\ last.op = "calculate_bet_amount" /\ ~last.arg.show_accurate
    /\ last.arg.betting_value > 0 /\ last.arg.odds > 0

\* C25: without show_accurate, calculate_bet_amount returns the least whole
\* number s with s >= betting_value / odds; (2100, 2) gives 1050 and
\* (2100, 3) gives 700.  Odds are in hundredths here, so that s >= v / odds
\* reads s * odds >= 100 * v.
C25_CeilingOfQuotient ==
    /\ CeilingCall
       => /\ last.outcome = "returned"
          /\ last.arg.value * last.arg.odds >= 100 * last.arg.betting_value
          /\ (last.arg.value - 1) * last.arg.odds < 100 * last.arg.betting_value
    /\ float_calculate_bet_amount(Binary64(2100), Odds(200), FALSE).value = 1050
    /\ float_calculate_bet_amount(Binary64(2100), Odds(300), FALSE).value = 700

\* C26: calculate_bet_amount fails whenever odds <= 0 or betting_value <= 0,
\* and a stake it returns (show_accurate or not) is above zero.
C26_InvalidInputRejected ==
    last.op = "calculate_bet_amount"
    => /\ (last.arg.odds <= 0 \/ last.arg.betting_value <= 0)
            => last.outcome = "raised"
       /\ (last.outcome = "returned" /\ ~last.arg.show_accurate)
            => last.arg.value > 0
       /\ (last.outcome = "returned" /\ last.arg.show_accurate)
            => (last.arg.value.sig # <<>> /\ ~last.arg.value.neg)

\* C34: without show_accurate and on positive inputs, the stake s that
\* calculate_bet_amount returns satisfies s * odds >= betting_value and
\* (s - 1) * odds < betting_value (odds in hundredths: both sides times 100).
C34_StakeBracketsQuotient ==
    (CeilingCall /\ last.outcome = "returned")
    => LET s == last.arg.value
       IN  /\ s * last.arg.odds >= 100 * last.arg.betting_value
           /\ (s - 1) * last.arg.odds < 100 * last.arg.betting_value

\* The mutating operations of the script.
MutatingOps ==
    {"place_bet", "apply_win", "apply_loss", "apply_cashout",
     "complete_cashout", "save_account"}

\* C32: with one session, after each of its mutating operations has ended,
\* in whatever way, the session's account_data holds every account of the
\* store with its stored balance.
C32_CacheEqualsStore ==
    last.op \in MutatingOps => account_data["s1"] = get_accounts(db)

\* The stake of account a in the bet placed from form f, and the credit a
\* win of side gives it: bet_amount * odds for an account staked on side.
PlacedStake(f, a) ==
    IF a \in f.team1_accounts THEN BetData(f).bet_amount1
    ELSE IF a \in f.team2_accounts THEN BetData(f).bet_amount2
    ELSE 0

PlacedCredit(f, side, a) ==
    IF side = 1 /\ a \in f.team1_accounts
    THEN BetData(f).bet_amount1 * f.odds1
    ELSE IF side = 2 /\ a \in f.team2_accounts
    THEN BetData(f).bet_amount2 * f.odds2
    ELSE 0

\* C31: when s1 has settled bet 1 and s2 has settled bet 2, in either order,
\* as wins that both credit account a, the stored balance of a is its
\* balance before the settlements (the saved balance less its two stakes)
\* plus the credit of the one plus the credit of the other.
C31_BothCreditsRetained ==
    \A a \in DOMAIN db.accounts :
      \A r1, r2 \in {r \in db.results : r.result_type = "win"} :
        LET c1 == PlacedCredit(RaceForm(1), r1.winning_team, a)
            c2 == PlacedCredit(RaceForm(MaxBets), r2.winning_team, a)
        IN  (r1.bet_id = 1 /\ r2.bet_id = MaxBets /\ c1 > 0 /\ c2 > 0)
            => \E b \in RaceBalances :
                  db.accounts[a] =
                      b - PlacedStake(RaceForm(1), a)
                        - PlacedStake(RaceForm(MaxBets), a) + c1 + c2

\* The write methods of the store.
WriteMethods ==
    {"create_bet", "save_result", "save_account", "save_settings",
     "create_match"}

\* File d holds the row that write method op, called with arg, writes.
Wrote(d, op, arg) ==
    CASE op = "save_account" -> arg.id \in DOMAIN d.accounts
      [] op = "create_match" -> \E m \in d.matches : m.match_id = arg.id
      [] op = "create_bet" -> \E b \in d.bets : b.bet_id = arg.id
      [] op = "save_result" ->
            /\ \E r \in d.results : r.bet_id = arg.id
            /\ \A b2 \in d.bets : b2.bet_id = arg.id => b2.status = "completed"
      [] op = "save_settings" -> d.settings \in SettingsInputs

\* C33: when a write method of the store has returned or raised, no
\* connection is left with an open transaction: what the method wrote is in
\* the file when it returned, and the file is as it was when it raised.
C33_NoTransactionLeftOpen ==
    [][last'.op \in WriteMethods
         => /\ \A t \in Threads : pending'[t] = NULL
            /\ last'.outcome = "raised" => db' = db
            /\ last'.outcome = "returned" => Wrote(db', last'.op, last'.arg)]_vars

\* C33 witness: a create_bet whose two accounts, bet and match were written
\* has raised in conn.commit() on a store that already held a bet, and a
\* settled one; the file is left with that one bet and no connection with a
\* transaction.
C33_Witness ==
    /\ last.op = "create_bet" /\ last.outcome = "raised"
    /\ last.arg.at = "commit"
    /\ Cardinality(db.bets) = 1 /\ db.results # {}
    /\ DOMAIN db.accounts = AccountIds
    /\ \A t \in Threads : pending[t] = NULL /\ conn[t] = "open"

====
